---------------------------- MODULE Spec2Model ----------------------------
(***************************************************************************)
(* A model of the calibration ladder (src/calibration.js) and of the      *)
(* live feedback classifier (src/unnamed/part_000): its level-to-target   *)
(* mapping, its per-exercise classifiers and its message display.         *)
(*                                                                         *)
(* Numbers.  Normalised coordinates and visibilities are fixed-point       *)
(* integers, one unit = 0.01 (Scale units = 1.0).  Time is in ticks of    *)
(* 100 ms (TicksPerSec ticks = 1 s): performance.now() is read in ticks,  *)
(* and the hold accumulator _hold is kept in ticks too, so that the       *)
(* division of line 59 loses nothing.  Distances and speeds are compared  *)
(* by their squares.                                                       *)
(* null / undefined points are records whose field present is FALSE; a    *)
(* null rung index is NoRung.                                              *)
(***************************************************************************)
EXTENDS Integers, Sequences, FiniteSets, Bags, TLC

VARIABLES
    grid,       \* the ladder session (calibration.js:112, made by CalibAuto.create)
    latestLm,   \* the latest landmark frame slot (calibration.js:112, 225)
    clock,      \* the wall clock performance.now() reads, in ticks
    r,          \* the status CalibAuto.update returned to mainLoop (calibration.js:273)
    running,    \* calibration.js:113
    savedOnce,  \* calibration.js:113
    store,      \* the three stored copies: session, local, compat (calibration.js:187-190)
    payload,    \* the record saveCalibration built last (calibration.js:177)
    got,        \* what CalibrationBridge.get returned last (calibration.js:104-109)
    fb,         \* the LiveFeedback instance (part_000:6-29) and its element
    handed,     \* the last call of provideFeedback: its criteria and landmarks (part_000:408)
    calls,      \* the showFeedback calls that call made, in order (part_000:94)
    timers,     \* the pending auto-clear callbacks (part_000:105-110)
    page        \* the start button, the start call in progress and the
                \* mainLoop callbacks waiting for a frame (calibration.js:198-240, 318, 321)

vars == <<grid, latestLm, clock, r, running, savedOnce, store, payload, got, fb,
          handed, calls, timers, page>>

\* the page before any start: the button enabled, no start call in progress and
\* no frame callback requested
NotStarted ==
    [at |-> "idle", outcome |-> "none", loops |-> 0, disabled |-> FALSE, ignored |-> FALSE]

\* the page after a start call that ran to its end, lines 199 and 239
Started ==
    [at |-> "idle", outcome |-> "started", loops |-> 1, disabled |-> TRUE, ignored |-> FALSE]

Scale == 10 * 10

\* ticks in a second: the 1000 of line 59, with the clock in ticks of 100 ms
TicksPerSec == 10

\* ----------------------------------------------------------------- bounds
\* frame-loop ticks explored after a checkpoint
MaxTicks == 3
MaxLevel == 3

\* ------------------------------------------------------------ arithmetic
Max(a, b) == IF a >= b THEN a ELSE b
Min(a, b) == IF a <= b THEN a ELSE b
Abs(a) == IF a >= 0 THEN a ELSE 0 - a

\* n / d rounded to the nearest integer (halves up): the fixed-point image of
\* a floating-point quotient.
RoundDiv(n, d) == (2 * n + d) \div (2 * d)

NoRung == 0

\* undefined / null point
Undef == [present |-> FALSE, x |-> 0, y |-> 0, visibility |-> 0]
Pt(px, py, v) == [present |-> TRUE, x |-> px, y |-> py, visibility |-> v]

clamp01(v) == Max(0, Min(Scale, v))

yAtIndex(yList, idx) == yList[Max(1, Min(Len(yList), idx))]

V2ema(prev, next, a) ==
    IF ~next.present THEN prev
    ELSE IF ~prev.present THEN next
    ELSE [present |-> TRUE,
          x |-> prev.x + RoundDiv(a * (next.x - prev.x), Scale),
          y |-> prev.y + RoundDiv(a * (next.y - prev.y), Scale),
          visibility |-> next.visibility]

\* the square of V2.dist(a, b)
V2dist2(a, b) == (a.x - b.x) * (a.x - b.x) + (a.y - b.y) * (a.y - b.y)

\* --------------------------------------------------- the ladder's defaults
defaults ==
    [count |-> 8, yTop |-> 12, yBottom |-> 85, leftX |-> 18, rightX |-> 82,
     hitRadius |-> 12, holdSeconds |-> 5, kFrames |-> 6, maxSpeedPerSec |-> 60,
     minVis |-> 55, needsHips |-> TRUE]

isMirrored == TRUE

MakeYList(c) ==
    [i \in 1..c.count |->
        c.yBottom - RoundDiv((i - 1) * (c.yBottom - c.yTop), c.count - 1)]

Create(c) ==
    [count |-> c.count, yTop |-> c.yTop, yBottom |-> c.yBottom,
     leftX |-> c.leftX, rightX |-> c.rightX, hitRadius |-> c.hitRadius,
     yList |-> MakeYList(c),
     holdSeconds |-> c.holdSeconds, kFrames |-> c.kFrames,
     maxSpeedPerSec |-> c.maxSpeedPerSec, minVis |-> c.minVis,
     needsHips |-> c.needsHips,
     step |-> "left",
     leftActive |-> NoRung, rightActive |-> NoRung,
     leftSaved |-> NoRung, rightSaved |-> NoRung,
     lastTs |-> 0, sL |-> Undef, sR |-> Undef,
     kOn |-> 0, hold |-> 0, candidate |-> NoRung,
     neutralSamples |-> EmptyBag,
     minYLeft |-> Scale, minYRight |-> Scale,
     maxRungL |-> NoRung, maxRungR |-> NoRung]


\* ------------------------------------------------------------- CalibAuto
\* the loop of _hitIndex from rung i on; bestD2 < 0 stands for Infinity
RECURSIVE HitLoop(_, _, _, _, _, _, _)
HitLoop(g, x, y, laneX, i, best, bestD2) ==
    IF i >= g.count THEN [best |-> best, bestD2 |-> bestD2]
    ELSE LET yy == g.yList[i + 1]
             dx == x - laneX
             dy == y - yy
             d2 == dx * dx + dy * dy
         IN  IF bestD2 < 0 \/ d2 < bestD2
             THEN HitLoop(g, x, y, laneX, i + 1, i, d2)
             ELSE HitLoop(g, x, y, laneX, i + 1, best, bestD2)

\* faulty variant: the radius test is left out
WithinRadiusAlways(bestD2, hitRadius) == bestD2 >= 0

\* sqrt(bestD2) <= hitRadius, on the squares
WithinRadius(bestD2, hitRadius) == bestD2 <= hitRadius * hitRadius

\* line 93
HitResult(b, hitRadius) ==
    IF WithinRadius(b.bestD2, hitRadius) THEN b.best + 1 ELSE NoRung

hitIndex(g, x, y, laneX) ==
    HitResult(HitLoop(g, x, y, laneX, 0, 0, 0 - 1), g.hitRadius)

RECURSIVE NearestLoop(_, _, _, _, _)
NearestLoop(g, y, i, best, bestAbs) ==
    IF i >= g.count THEN best
    ELSE LET d == Abs(g.yList[i + 1] - y)
         IN  IF bestAbs < 0 \/ d < bestAbs
             THEN NearestLoop(g, y, i + 1, i + 1, d)
             ELSE NearestLoop(g, y, i + 1, best, bestAbs)

nearestRung(g, y) == NearestLoop(g, y, 0, 1, 0 - 1)

\* progress is a fraction of Scale; countdown is in ticks
StatusRec(g, side, progress) ==
    LET p == Max(0, Min(Scale, progress))
    IN  [ok |-> TRUE, side |-> side, saved |-> FALSE, progress |-> p,
         countdown |-> Max(0, RoundDiv(g.holdSeconds * TicksPerSec * (Scale - p), Scale)),
         step |-> g.step,
         leftActive |-> g.leftActive, rightActive |-> g.rightActive,
         leftSaved |-> g.leftSaved, rightSaved |-> g.rightSaved]

SavedStatus(g, side) ==
    [ok |-> TRUE, side |-> side, saved |-> TRUE, progress |-> Scale,
     countdown |-> 0, step |-> g.step]

\* (lm[i]?.visibility ?? 0) >= minVis
vOK(g, pt) == (IF pt.present THEN pt.visibility ELSE 0) >= g.minVis

hipsOK(g, lm) == vOK(g, lm[23]) /\ vOK(g, lm[24])

nrm(pt) ==
    [present |-> TRUE,
     x |-> clamp01(IF isMirrored THEN Scale - pt.x ELSE pt.x),
     y |-> clamp01(pt.y),
     visibility |-> pt.visibility]

\* faulty variant: losing the hips also wipes the saved rungs
HipsLostWipe(g) ==
    [g EXCEPT !.candidate = NoRung, !.kOn = 0, !.hold = 0,
              !.leftSaved = NoRung, !.rightSaved = NoRung]

\* line 52: the hips are not visible
HipsLost(g) == [g EXCEPT !.candidate = NoRung, !.kOn = 0, !.hold = 0]

\* line 55: a wrist is not visible enough
WristLost(g) == [g EXCEPT !.kOn = 0, !.hold = 0]

\* line 53
SampleHips(g, lm) ==
    [g EXCEPT !.neutralSamples =
        @ (+) SetToBag({Max(clamp01(lm[23].y), clamp01(lm[24].y))})]

\* line 59: dt, in ticks
DtOf(g, now) == IF g.lastTs # 0 THEN now - g.lastTs ELSE 0

\* line 61 and the comparison of line 77: spd <= maxSpeedPerSec, where
\* spd = (prev && dt > 0) ? dist(prev, w) / dt : 0
Steady(g, prev, w, dt) ==
    IF prev.present /\ dt > 0
    THEN V2dist2(prev, w) * TicksPerSec * TicksPerSec
            <= (g.maxSpeedPerSec * dt) * (g.maxSpeedPerSec * dt)
    ELSE TRUE

\* lines 59, 60, 63, 64: the timestamp, the smoothed points sL and sR and
\* the hit tests on them
Hit(g, sL, sR, now) ==
    [g EXCEPT !.lastTs = now, !.sL = sL, !.sR = sR,
              !.leftActive = hitIndex(g, sL.x, sL.y, g.leftX),
              !.rightActive = hitIndex(g, sR.x, sR.y, g.rightX)]

\* line 66
ReachLeft(g) ==
    IF g.sL.y < g.minYLeft
    THEN [g EXCEPT !.minYLeft = g.sL.y, !.maxRungL = nearestRung(g, g.sL.y)]
    ELSE g

\* line 67
ReachRight(g) ==
    IF g.sR.y < g.minYRight
    THEN [g EXCEPT !.minYRight = g.sR.y, !.maxRungR = nearestRung(g, g.sR.y)]
    ELSE g

\* lines 59-67
Track(g, wL, wR, now) ==
    ReachRight(ReachLeft(Hit(g, V2ema(g.sL, wL, 35), V2ema(g.sR, wR, 35), now)))

\* line 74: no rung is active
NoActive(g, yHand) ==
    [g EXCEPT !.candidate = NoRung, !.kOn = 0, !.hold = 0,
              !.neutralSamples = @ (+) SetToBag({yHand})]

\* faulty variant: the counters restart on every frame
RetargetAlways(g, active) ==
    [g EXCEPT !.candidate = active, !.kOn = 0, !.hold = 0]

\* faulty variant: the candidate follows the active rung, the counters are kept
RetargetKeep(g, active) ==
    IF g.candidate # active THEN [g EXCEPT !.candidate = active] ELSE g

\* line 75
Retarget(g, active) ==
    IF g.candidate # active
    THEN [g EXCEPT !.candidate = active, !.kOn = 0, !.hold = 0]
    ELSE g

\* line 77
Accrue(g, steady, dt) ==
    LET k == IF steady THEN g.kOn + 1 ELSE g.kOn
    IN  [g EXCEPT !.kOn = k,
                  !.hold = IF k >= g.kFrames THEN g.hold + dt ELSE g.hold]

\* faulty variant: > for >=
HoldReachedStrict(g) == g.hold > g.holdSeconds * TicksPerSec

\* line 79: _hold >= holdSeconds
HoldReached(g) == g.hold >= g.holdSeconds * TicksPerSec

\* faulty variant: the step toggles between the hands
NextStepToggle(side) == IF side = "left" THEN "right" ELSE "left"

\* line 81
NextStep(side) == IF side = "left" THEN "right" ELSE "done"

\* lines 80-81
SaveRung(g, side) ==
    LET g1 == IF side = "left" THEN [g EXCEPT !.leftSaved = g.candidate]
                               ELSE [g EXCEPT !.rightSaved = g.candidate]
    IN  [g1 EXCEPT !.candidate = NoRung, !.kOn = 0, !.hold = 0,
                   !.step = NextStep(side)]

\* hold / holdSeconds as a fraction of Scale
Progress(g) == RoundDiv(g.hold * Scale, g.holdSeconds * TicksPerSec)

\* a return through _status with progress 0 (lines 49, 52, 55, 74)
Exit(g, side) == [grid |-> g, status |-> StatusRec(g, side, 0)]

\* lines 79-84, on the grid after line 77
Finish(gA, side) ==
    IF HoldReached(gA)
    THEN [grid |-> SaveRung(gA, side), status |-> SavedStatus(SaveRung(gA, side), side)]
    ELSE [grid |-> gA, status |-> StatusRec(gA, side, Progress(gA))]

\* lines 74-84, for the hand of this step: its active rung, its speed test
\* and its smoothed height
Held(gT, side, active, steady, dt, yHand) ==
    IF active = NoRung
    THEN Exit(NoActive(gT, yHand), side)
    ELSE Finish(Accrue(Retarget(gT, active), steady, dt), side)

\* lines 69-72: gH is the grid before line 59 (prevL, prevR), gT after line 67
Tracked(gH, gT, wL, wR, dt) ==
    IF gT.step = "left"
    THEN Held(gT, gT.step, gT.leftActive, Steady(gH, gH.sL, wL, dt), dt, gT.sL.y)
    ELSE Held(gT, gT.step, gT.rightActive, Steady(gH, gH.sR, wR, dt), dt, gT.sR.y)

\* lines 55-84, on the grid after line 53
Sampled(gH, lm, now) ==
    IF ~vOK(gH, lm[15]) \/ ~vOK(gH, lm[16])
    THEN Exit(WristLost(gH), gH.step)
    ELSE Tracked(gH, Track(gH, nrm(lm[15]), nrm(lm[16]), now),
                 nrm(lm[15]), nrm(lm[16]), DtOf(gH, now))

\* CalibAuto.update(grid, lm, {isMirrored}): the grid after it and the status
\* it returns.  lm is a frame (never null: mainLoop tests that), now is what
\* performance.now() returns if line 59 is reached.
update(g, lm, now) ==
    IF ~lm[15].present \/ ~lm[16].present
    THEN Exit(g, g.step)
    ELSE IF g.needsHips /\ ~hipsOK(g, lm)
    THEN Exit(HipsLost(g), g.step)
    ELSE Sampled(SampleHips(g, lm), lm, now)


\* ------------------------------------------------- storage and the record
\* JSON text of a number: its sign and decimal digits; of null: null
RECURSIVE Digits(_)
Digits(n) == IF n < 10 THEN <<n>> ELSE Append(Digits(n \div 10), n % 10)

RECURSIVE FromDigits(_)
FromDigits(ds) ==
    IF Len(ds) = 0 THEN 0
    ELSE 10 * FromDigits(SubSeq(ds, 1, Len(ds) - 1)) + ds[Len(ds)]

JsonNull == [null |-> TRUE, neg |-> FALSE, digits |-> <<>>]
NumToJson(n) == [null |-> FALSE, neg |-> n < 0, digits |-> Digits(Abs(n))]
JsonToNum(t) == IF t.neg THEN 0 - FromDigits(t.digits) ELSE FromDigits(t.digits)

\* a rung index or null
IndexToJson(i) == IF i = NoRung THEN JsonNull ELSE NumToJson(i)
JsonToIndex(t) == IF t.null THEN NoRung ELSE JsonToNum(t)

\* JSON.stringify(payload)
stringify(p) ==
    [kind |-> "json", t |-> NumToJson(p.t),
     count |-> NumToJson(p.count),
     leftIndex |-> IndexToJson(p.leftIndex),
     rightIndex |-> IndexToJson(p.rightIndex),
     leftY |-> NumToJson(p.leftY), rightY |-> NumToJson(p.rightY),
     neutralY |-> NumToJson(p.rom.neutralY),
     maxReachLeftY |-> NumToJson(p.rom.maxReachLeftY),
     maxReachRightY |-> NumToJson(p.rom.maxReachRightY)]

\* JSON.parse(raw) of a text stringify wrote
parse(raw) ==
    [present |-> TRUE, t |-> JsonToNum(raw.t),
     count |-> JsonToNum(raw.count),
     leftIndex |-> JsonToIndex(raw.leftIndex),
     rightIndex |-> JsonToIndex(raw.rightIndex),
     leftY |-> JsonToNum(raw.leftY), rightY |-> JsonToNum(raw.rightY),
     rom |-> [neutralY |-> JsonToNum(raw.neutralY),
              maxReachLeftY |-> JsonToNum(raw.maxReachLeftY),
              maxReachRightY |-> JsonToNum(raw.maxReachRightY)]]

NoRecord == [present |-> FALSE]

\* a storage slot: no item, or an item with its text; a text is the empty
\* string, text that is no JSON, or a JSON text
NoItem == [present |-> FALSE, text |-> [kind |-> "empty"]]
Item(t) == [present |-> TRUE, text |-> t]
EmptyText == [kind |-> "empty"]
GarbageText == [kind |-> "garbage"]

\* getItem(k) || ... : null and "" are falsy
Truthy(item) == item.present /\ item.text.kind # "empty"

\* faulty variant: the long-lived copy is read before the session copy
RawOfLocalFirst(st) ==
    IF Truthy(st.local) THEN st.local
    ELSE IF Truthy(st.session) THEN st.session
    ELSE st.compat

\* line 106
RawOf(st) ==
    IF Truthy(st.session) THEN st.session
    ELSE IF Truthy(st.local) THEN st.local
    ELSE st.compat

\* CalibrationBridge.get
BridgeGet(st) ==
    LET raw == RawOf(st)
    IN  IF ~Truthy(raw) THEN NoRecord
        ELSE IF raw.text.kind = "garbage" THEN NoRecord
        ELSE parse(raw.text)

RECURSIVE BagSum(_)
BagSum(B) ==
    IF BagToSet(B) = {} THEN 0
    ELSE LET v == CHOOSE e \in BagToSet(B) : TRUE
         IN  v * CopiesIn(v, B) + BagSum([e \in BagToSet(B) \ {v} |-> B[e]])

\* lines 173-175
Neutral(g) ==
    IF BagCardinality(g.neutralSamples) # 0
    THEN RoundDiv(BagSum(g.neutralSamples), BagCardinality(g.neutralSamples))
    ELSE g.yBottom

\* lines 177-185
BuildPayload(g, now) ==
    [present |-> TRUE, t |-> now,
     count |-> g.count,
     leftIndex |-> g.leftSaved, rightIndex |-> g.rightSaved,
     leftY |-> yAtIndex(g.yList, g.leftSaved),
     rightY |-> yAtIndex(g.yList, g.rightSaved),
     rom |-> [neutralY |-> Neutral(g),
              maxReachLeftY |-> g.minYLeft, maxReachRightY |-> g.minYRight]]

\* lines 186-194: the three setItem calls in order; the fail-th one throws
\* (0: none does) and the catch ends the writes
WriteAll(st, p, fail) ==
    LET raw == Item(stringify(p))
        s1 == IF fail = 1 THEN st ELSE [st EXCEPT !.session = raw]
        s2 == IF fail \in {1, 2} THEN s1 ELSE [s1 EXCEPT !.local = raw]
    IN  IF fail \in {1, 2, 3} THEN s2 ELSE [s2 EXCEPT !.compat = raw]

\* --------------------------------------------------------------- frames
LmIdx == {15, 16, 23, 24}
NullLm == [present |-> FALSE, lm |-> [i \in LmIdx |-> Undef]]
Frame(w15, w16, h23, h24) ==
    [present |-> TRUE,
     lm |-> (15 :> w15 @@ 16 :> w16 @@ 23 :> h23 @@ 24 :> h24)]

Hip23 == Pt(45, 78, 90)
Hip24 == Pt(55, 80, 90)
Hip24Low == Pt(55, 80, 30)

\* wrists, in camera coordinates (mirrored by nrm): on rung 5 of its lane,
\* on rung 4, and away from the lane
L5 == Pt(92, 43, 90)
L4 == Pt(92, 54, 90)
LFar == Pt(30, 43, 90)
LLow == Pt(92, 43, 30)
R5 == Pt(8, 43, 90)
R4 == Pt(8, 54, 90)
RFar == Pt(70, 43, 90)
RLow == Pt(8, 43, 30)

F55 == Frame(L5, R5, Hip23, Hip24)
F44 == Frame(L4, R4, Hip23, Hip24)
FFar == Frame(LFar, RFar, Hip23, Hip24)
FNo15 == Frame(Undef, R5, Hip23, Hip24)
FNo16 == Frame(L5, Undef, Hip23, Hip24)
FHipsLow == Frame(L5, R5, Hip23, Hip24Low)
FLow15 == Frame(LLow, R5, Hip23, Hip24)
FLow16 == Frame(L5, RLow, Hip23, Hip24)
\* the left wrist on rung 5 and the right wrist away from its lane
F5Far == Frame(L5, RFar, Hip23, Hip24)
\* no left wrist and a hip that is not visible
FNo15HipsLow == Frame(Undef, R5, Hip23, Hip24Low)

Frames ==
    {F55, F44, FFar, F5Far, FNo15, FNo16, FHipsLow, FNo15HipsLow, FLow15, FLow16}

\* elapsed ticks between two frame-loop ticks: one second
FrameTicks == TicksPerSec

\* storage failures: which setItem throws (0: none)
FailSet == 0..3

\* ---------------------------------------------------------- the frame loop
NoStatus == [ok |-> FALSE]

\* new LiveFeedback(), lines 6-29; times are in ticks, the element is null
\* until init finds it
NoElement == [present |-> FALSE, textContent |-> "", className |-> ""]
FbInit ==
    [feedbackElement |-> NoElement, currentFeedback |-> "",
     lastFeedbackTime |-> 0, feedbackCooldown |-> 15,
     level |-> 1, levels |-> 3, calib |-> NoRecord,
     targetY |-> [num |-> 60, den |-> 1], neutralY |-> 78,
     downBuffer |-> 2, requireDownFrames |-> 8, requireUpFrames |-> 5,
     phase |-> "up", downCounter |-> 0, upCounter |-> 0]

\* no call of provideFeedback yet
NoCall == [present |-> FALSE, criteria |-> "", upRun |-> 0, downRun |-> 0,
           threw |-> FALSE]

\* the page's state the frame loop works on
Loaded ==
    [grid |-> Create(defaults), r |-> NoStatus, savedOnce |-> FALSE,
     store |-> [session |-> NoItem, local |-> NoItem, compat |-> NoItem],
     payload |-> NoRecord]

\* lines 294-296: the payload p is saved
Written(S, u, p, fail) ==
    [S EXCEPT !.grid = u.grid, !.r = u.status, !.savedOnce = TRUE,
              !.payload = p, !.store = WriteAll(S.store, p, fail)]

\* faulty variant: the record is saved on every frame with step = done
AfterUpdateAlways(S, u, now, fail) ==
    IF u.grid.step = "done"
    THEN Written(S, u, BuildPayload(u.grid, now), fail)
    ELSE [S EXCEPT !.grid = u.grid, !.r = u.status]

\* lines 274-315, u what update returned
AfterUpdate(S, u, now, fail) ==
    IF u.grid.step = "done" /\ ~S.savedOnce
    THEN Written(S, u, BuildPayload(u.grid, now), fail)
    ELSE [S EXCEPT !.grid = u.grid, !.r = u.status]

\* lines 271-315 of mainLoop: slot is latestLm, now the clock at this tick
mainLoopBody(S, slot, now, fail) ==
    IF ~slot.present THEN S
    ELSE AfterUpdate(S, update(S.grid, slot.lm, now), now, fail)

\* the state after the frame loop has run over the frames fs, one per tick
\* from time t on (each step's state is evaluated before the next is taken)
RECURSIVE RunFrames(_, _, _)
RunOn(N, fs, t) ==
    IF N.savedOnce \in BOOLEAN /\ N.grid.kOn >= 0
    THEN RunFrames(N, Tail(fs), t + FrameTicks)
    ELSE N

RunFrames(S, fs, t) ==
    IF Len(fs) = 0 THEN S
    ELSE RunOn(mainLoopBody(S, fs[1], t, 0), fs, t)

Rep(f, n) == [i \in 1..n |-> f]

\* Checkpoints: frame sequences after which the exploration starts.  Each is
\* a run of the frame loop from the loaded page, so each initial state is a
\* state the page reaches.
Checkpoints ==
    { <<>>,
      Rep(F55, 5),
      Rep(F55, 8),
      Rep(F55, 10),
      Rep(F55, 18),
      Rep(F55, 20),
      Rep(F55, 28),
      Rep(F55, 8) \o <<FHipsLow>> \o Rep(F55, 5) }

\* the clock at a checkpoint
T0 == 30 * TicksPerSec

MaxClock == T0 + FrameTicks * MaxTicks

Init ==
    \E cp \in Checkpoints :
        \E S \in {RunFrames(Loaded, cp, T0 - FrameTicks * (Len(cp) - 1))} :
            /\ grid = S.grid
            /\ r = S.r
            /\ savedOnce = S.savedOnce
            /\ store = S.store
            /\ payload = S.payload
            /\ latestLm = IF Len(cp) = 0 THEN NullLm ELSE cp[Len(cp)]
            /\ clock = T0
            /\ running = TRUE
            /\ page = Started
            /\ got = NoRecord
            /\ fb = FbInit
            /\ handed = NoCall
            /\ calls = <<>>
            /\ timers = {}

\* pose.onResults (line 225)
OnResults(f) ==
    /\ latestLm' = f
    /\ UNCHANGED <<page, grid, clock, r, running, savedOnce, store, payload, got, fb,
                   handed, calls, timers>>

\* one tick of mainLoop (lines 251-319), FrameTicks after the last one
MainLoop(fail) ==
    /\ running
    /\ clock + FrameTicks <= MaxClock
    /\ clock' = clock + FrameTicks
    /\ \E S \in {mainLoopBody([grid |-> grid, r |-> r, savedOnce |-> savedOnce,
                              store |-> store, payload |-> payload],
                             latestLm, clock + FrameTicks, fail)} :
           /\ fail # 0 => (S.savedOnce /\ ~savedOnce)
           /\ grid' = S.grid
           /\ r' = S.r
           /\ savedOnce' = S.savedOnce
           /\ store' = S.store
           /\ payload' = S.payload
    /\ UNCHANGED <<page, latestLm, running, got, fb,
                   handed, calls, timers>>

Next ==
    \/ \E f \in Frames \cup {NullLm} : OnResults(f)
    \/ \E fail \in FailSet : MainLoop(fail)

Spec == Init /\ [][Next]_vars

\* ---------------------------------------------- a hand held on one rung
\* A fresh session (CalibAuto.create, line 30) in which every pose result
\* shows both hands on the same rung, moving a little but far slower than
\* maxSpeedPerSec, hips and wrists well visible.
HoldTicks == 12
HoldClock == T0 + FrameTicks * HoldTicks
HoldRungs == {4, 5}

L5b == Pt(91, 44, 90)
L4b == Pt(91, 55, 90)
R5b == Pt(9, 44, 90)
R4b == Pt(9, 55, 90)
HoldFrames ==
    { Frame(a, b, Hip23, Hip24) : a \in {L5, L5b}, b \in {R5, R5b} }
        \cup { Frame(a, b, Hip23, Hip24) : a \in {L4, L4b}, b \in {R4, R4b} }

\* the rung the left wrist of a frame is on
HeldRung(f) ==
    hitIndex(Create(defaults), nrm(f.lm[15]).x, nrm(f.lm[15]).y, defaults.leftX)

HoldInit ==
    /\ grid = Loaded.grid
    /\ r = Loaded.r
    /\ savedOnce = Loaded.savedOnce
    /\ store = Loaded.store
    /\ payload = Loaded.payload
    /\ latestLm \in HoldFrames
    /\ clock = T0
    /\ running = TRUE
    /\ page = Started
    /\ got = NoRecord
    /\ fb = FbInit
    /\ handed = NoCall
    /\ calls = <<>>
    /\ timers = {}

\* pose.onResults, line 224, while the hand stays on its rung
HoldResults(f) ==
    /\ HeldRung(f) = HeldRung(latestLm)
    /\ latestLm' = f
    /\ UNCHANGED <<page, grid, clock, r, running, savedOnce, store, payload, got, fb,
                   handed, calls, timers>>

\* mainLoop, lines 251-319: it reschedules itself (line 318) while running
\* the loop runs its next iteration: the clock part of HoldLoop
HoldTick ==
    /\ running
    /\ clock + FrameTicks <= HoldClock
    /\ clock' = clock + FrameTicks

HoldLoop ==
    /\ HoldTick
    /\ \E S \in {mainLoopBody([grid |-> grid, r |-> r, savedOnce |-> savedOnce,
                              store |-> store, payload |-> payload],
                             latestLm, clock + FrameTicks, 0)} :
           /\ grid' = S.grid
           /\ r' = S.r
           /\ savedOnce' = S.savedOnce
           /\ store' = S.store
           /\ payload' = S.payload
    /\ UNCHANGED <<page, latestLm, running, got, fb,
                   handed, calls, timers>>

HoldNext ==
    \/ \E f \in HoldFrames : HoldResults(f)
    \/ HoldLoop

\* HoldLoop is enabled exactly when HoldTick is, and the steps of HoldNext
\* that change the clock are the HoldLoop steps: this is weak fairness of
\* the frame loop
SpecHold == HoldInit /\ [][HoldNext]_vars /\ WF_clock(HoldTick)

\* ------------------------------------------------ LiveFeedback.setLevel
\* targetY and the ramp are exact fractions [num, den] of the 0.01 unit, so
\* that no rounding hides or makes a difference between two levels.
\* A value Number() turns into NaN (undefined, a missing field, text)
NaN == 0 - Scale * Scale

\* the value null, which Number() turns into 0
Null == NaN - 1

\* Number(v)
ToNumber(v) == IF v = Null THEN 0 ELSE v

\* _safeNum, line 70: v = Number(v); Number.isFinite(v) ? v : fallback
safeNum(v, fallback) == IF ToNumber(v) = NaN THEN fallback ELSE ToNumber(v)

\* this.calib?.rom?.<field>
RomField(c, field) ==
    IF c.present /\ "rom" \in DOMAIN c THEN c.rom[field] ELSE NaN

\* faulty variant: the ramp runs from 0.65 down to 0.15
FracReversed(t) == [num |-> 65 * t.den - 50 * t.num, den |-> Scale * t.den]

\* faulty variant: the ramp ends at the full span
FracFull(t) == [num |-> 15 * t.den + 85 * t.num, den |-> Scale * t.den]

\* line 55: frac = 0.15 + 0.50 * t, for t = num / den
Frac(t) == [num |-> 15 * t.den + 50 * t.num, den |-> Scale * t.den]

\* _lerp, line 71: a + (b - a) * clamp(t, 0, 1)
lerp(a, b, t) ==
    [num |-> a * t.den + (b - a) * Max(0, Min(t.den, t.num)), den |-> t.den]

\* setLevel, lines 39-57, on the instance f
setLevel(f, level, levels, calib) ==
    LET lv == Max(1, IF level # 0 THEN level ELSE 1)
        lvs == Max(lv, IF levels # 0 THEN levels ELSE lv)
        c == IF calib.present THEN calib ELSE f.calib
        neutral == safeNum(RomField(c, "neutralY"), 78)
        maxYL == safeNum(RomField(c, "maxReachLeftY"), 18)
        maxYR == safeNum(RomField(c, "maxReachRightY"), 18)
        maxY == Min(maxYL, maxYR)
        t == [num |-> lv - 1, den |-> Max(1, lvs - 1)]
    IN  [f EXCEPT !.level = lv, !.levels = lvs, !.calib = c,
                  !.neutralY = neutral,
                  !.targetY = lerp(neutral, maxY, Frac(t))]

\* what the exercise pages pass: a level and a level count (0: none given),
\* no record, a record without rom, a record whose rom fields are all
\* missing or all null, or a record with numeric, missing or equal rom fields
LevelInputs == 0..(MaxLevel + 1)
LevelsInputs == 0..MaxLevel
CalibInputs ==
    {NoRecord, [present |-> TRUE]} \cup
    { [present |-> TRUE,
       rom |-> [neutralY |-> v, maxReachLeftY |-> v, maxReachRightY |-> v]] :
         v \in {NaN, Null} } \cup
    { [present |-> TRUE,
       rom |-> [neutralY |-> n, maxReachLeftY |-> a, maxReachRightY |-> b]] :
         n \in {78, 50, NaN}, a \in {18, 50, NaN}, b \in {18, 50, 90} }

LevelInit ==
    /\ grid = Loaded.grid
    /\ r = Loaded.r
    /\ savedOnce = Loaded.savedOnce
    /\ store = Loaded.store
    /\ payload = Loaded.payload
    /\ latestLm = NullLm
    /\ clock = T0
    /\ running = FALSE
    /\ page = NotStarted
    /\ got = NoRecord
    /\ fb = FbInit
    /\ handed = NoCall
    /\ calls = <<>>
    /\ timers = {}

SetLevel(level, levels, calib) ==
    /\ fb' = setLevel(fb, level, levels, calib)
    /\ UNCHANGED <<page, grid, latestLm, clock, r, running, savedOnce, store, payload, got,
                   handed, calls, timers>>

LevelNext ==
    \E level \in LevelInputs, levels \in LevelsInputs, calib \in CalibInputs :
        SetLevel(level, levels, calib)

SpecLevel == LevelInit /\ [][LevelNext]_vars

\* ------------------------------------------- saving over an older store
\* The session is one tick short of the right hand's save; the three slots
\* hold anything an earlier visit can have left: nothing, an empty text, text
\* that is no JSON, or the record of an earlier calibration on rung 4.
StoreTicks == 2
StoreClock == T0 + FrameTicks * StoreTicks
OldPayload == RunFrames(Loaded, Rep(F44, 20), T0).payload
PriorItems == {NoItem, Item(EmptyText), Item(GarbageText), Item(stringify(OldPayload))}
StoreFrames == {F55, FFar, NullLm}

StoreInit ==
    \E a \in PriorItems, b \in PriorItems, c \in PriorItems :
        \E S \in {RunFrames(Loaded, Rep(F55, 19), T0 - FrameTicks * 18)} :
            /\ grid = S.grid
            /\ r = S.r
            /\ savedOnce = S.savedOnce
            /\ payload = S.payload
            /\ store = [session |-> a, local |-> b, compat |-> c]
            /\ latestLm = F55
            /\ clock = T0
            /\ running = TRUE
            /\ page = Started
            /\ got = NoRecord
            /\ fb = FbInit
            /\ handed = NoCall
            /\ calls = <<>>
            /\ timers = {}

\* pose.onResults, line 224
StoreResults(f) ==
    /\ latestLm' = f
    /\ UNCHANGED <<page, grid, clock, r, running, savedOnce, store, payload, got, fb,
                   handed, calls, timers>>

\* mainLoop, lines 251-319
StoreLoop(fail) ==
    /\ running
    /\ clock + FrameTicks <= StoreClock
    /\ clock' = clock + FrameTicks
    /\ \E S \in {mainLoopBody([grid |-> grid, r |-> r, savedOnce |-> savedOnce,
                              store |-> store, payload |-> payload],
                             latestLm, clock + FrameTicks, fail)} :
           /\ fail # 0 => (S.savedOnce /\ ~savedOnce)
           /\ grid' = S.grid
           /\ r' = S.r
           /\ savedOnce' = S.savedOnce
           /\ store' = S.store
           /\ payload' = S.payload
    /\ UNCHANGED <<page, latestLm, running, got, fb,
                   handed, calls, timers>>

\* a page calls CalibrationBridge.get(), lines 104-109
Get ==
    /\ got' = BridgeGet(store)
    /\ UNCHANGED <<page, grid, latestLm, clock, r, running, savedOnce, store, payload, fb,
                   handed, calls, timers>>

StoreNext ==
    \/ \E f \in StoreFrames : StoreResults(f)
    \/ \E fail \in FailSet : StoreLoop(fail)
    \/ Get

SpecStore == StoreInit /\ [][StoreNext]_vars

\* --------------------------------------------- attempts and the reset
\* A session in which the user keeps both hands on rung 5 (or the pose
\* model loses the person) and may press Reset at any time: from a fresh
\* grid and from one frame short of the right hand's save, long enough for a
\* whole attempt after a reset.
AttemptTicks == 12
AttemptClock == T0 + FrameTicks * AttemptTicks
AttemptFrames == {F55, NullLm}

AttemptInit ==
    \E cp \in {<<>>, Rep(F55, 19)} :
        \E S \in {RunFrames(Loaded, cp, T0 - FrameTicks * (Len(cp) - 1))} :
            /\ grid = S.grid
            /\ r = S.r
            /\ savedOnce = S.savedOnce
            /\ store = S.store
            /\ payload = S.payload
            /\ latestLm = IF Len(cp) = 0 THEN NullLm ELSE cp[Len(cp)]
            /\ clock = T0
            /\ running = TRUE
            /\ page = Started
            /\ got = NoRecord
            /\ fb = FbInit
            /\ handed = NoCall
            /\ calls = <<>>
            /\ timers = {}

\* pose.onResults, line 225
AttemptResults(f) ==
    /\ latestLm' = f
    /\ UNCHANGED <<page, grid, clock, r, running, savedOnce, store, payload, got, fb,
                   handed, calls, timers>>

\* mainLoop, lines 251-319
AttemptLoop ==
    /\ running
    /\ clock + FrameTicks <= AttemptClock
    /\ clock' = clock + FrameTicks
    /\ \E S \in {mainLoopBody([grid |-> grid, r |-> r, savedOnce |-> savedOnce,
                              store |-> store, payload |-> payload],
                             latestLm, clock + FrameTicks, 0)} :
           /\ grid' = S.grid
           /\ r' = S.r
           /\ savedOnce' = S.savedOnce
           /\ store' = S.store
           /\ payload' = S.payload
    /\ UNCHANGED <<page, latestLm, running, got, fb,
                   handed, calls, timers>>

\* btnReset.onclick, lines 242-249 and 322
Reset ==
    /\ savedOnce' = FALSE
    /\ grid' = Create(defaults)
    /\ UNCHANGED <<page, latestLm, clock, r, running, store, payload, got, fb,
                   handed, calls, timers>>

AttemptNext ==
    \/ \E f \in AttemptFrames : AttemptResults(f)
    \/ AttemptLoop
    \/ Reset

SpecAttempt == AttemptInit /\ [][AttemptNext]_vars


\* ------------------------------------------- LiveFeedback: the classifiers

\* isVisible, lines 89-91, with the default threshold 0.5
isVisible(l) == l.present /\ l.visibility > 50

\* calculateAngle, lines 74-80: the angle at b between the rays to a and to c,
\* folded into 0..180.  The model compares it with a threshold through the
\* dot product and the squared cosine (in thousandths); limbs are at most 20
\* units long and never of length 0.
Dot(a, b, c) == (a.x - b.x) * (c.x - b.x) + (a.y - b.y) * (c.y - b.y)
LenSq(a, b) == (a.x - b.x) * (a.x - b.x) + (a.y - b.y) * (a.y - b.y)
CosSq(deg) == CASE deg = 90 -> 0 [] deg = 140 -> 587
                [] deg = 160 -> 883 [] deg = 170 -> 970

\* the angle is 0, which `a && ...` and `!a` take for "no angle"
angleIsZero(a, b, c) ==
    /\ Dot(a, b, c) > 0
    /\ (a.x - b.x) * (c.y - b.y) = (a.y - b.y) * (c.x - b.x)

\* calculateAngle(a, b, c) < deg, for deg in 90..180
angleBelow(a, b, c, deg) ==
    \/ Dot(a, b, c) > 0
    \/ Dot(a, b, c) = 0 /\ deg > 90
    \/ /\ Dot(a, b, c) < 0
       /\ Dot(a, b, c) * Dot(a, b, c) * 1000 < CosSq(deg) * LenSq(a, b) * LenSq(c, b)

\* calculateAngle(a, b, c) > deg, for deg in 90..180
angleAbove(a, b, c, deg) ==
    /\ Dot(a, b, c) < 0
    /\ Dot(a, b, c) * Dot(a, b, c) * 1000 > CosSq(deg) * LenSq(a, b) * LenSq(c, b)

\* `a && a < 160`, lines 139, 143, 236, 244
bent(a, b, c) == ~angleIsZero(a, b, c) /\ angleBelow(a, b, c, 160)

\* the anti-spam window of line 97, 500 ms in ticks
SpamTicks == TicksPerSec \div 2

\* line 95 or 97 returned: the call is made and nothing changes
suppressed(S, message, type, now) ==
    [S EXCEPT !.calls = Append(@, [message |-> message, type |-> type,
                                   at |-> now, rendered |-> FALSE])]

\* faulty variant: a rendering does not record its time
renderedNoStamp(S, message, type, now) ==
    [fb |-> [S.fb EXCEPT
                !.currentFeedback = message,
                !.feedbackElement =
                    [present |-> TRUE, textContent |-> message,
                     className |-> type]],
     timers |-> S.timers \cup
                {[due |-> now + S.fb.feedbackCooldown,
                  message |-> message, setAt |-> now]},
     calls |-> Append(S.calls, [message |-> message, type |-> type,
                                at |-> now, rendered |-> TRUE])]

\* lines 99-110: the message is rendered (className keeps the type only)
\* and a timer is left behind by setTimeout
rendered(S, message, type, now) ==
    [fb |-> [S.fb EXCEPT
                !.currentFeedback = message,
                !.lastFeedbackTime = now,
                !.feedbackElement =
                    [present |-> TRUE, textContent |-> message,
                     className |-> type]],
     timers |-> S.timers \cup
                {[due |-> now + S.fb.feedbackCooldown,
                  message |-> message, setAt |-> now]},
     calls |-> Append(S.calls, [message |-> message, type |-> type,
                                at |-> now, rendered |-> TRUE])]

\* faulty variant: no anti-spam window
showFeedbackAlways(S, message, type, now) ==
    IF ~S.fb.feedbackElement.present \/ message = ""
    THEN suppressed(S, message, type, now)
    ELSE rendered(S, message, type, now)

\* showFeedback, lines 94-111, called at Date.now() = now on S = the
\* instance, the pending timers and the calls made so far
showFeedback(S, message, type, now) ==
    IF \/ ~S.fb.feedbackElement.present
       \/ message = ""
       \/ now - S.fb.lastFeedbackTime < SpamTicks
    THEN suppressed(S, message, type, now)
    ELSE rendered(S, message, type, now)

\* the callback of lines 105-110 for the timer t
timerFired(f, t) ==
    IF f.currentFeedback = t.message
    THEN [f EXCEPT !.feedbackElement.textContent = "",
                   !.feedbackElement.className = ""]
    ELSE f

\* what a classifier does on one frame: the counters it leaves, the
\* showFeedback calls it makes, in order, and whether it ended in a TypeError
Say(message, type) == <<[message |-> message, type |-> type]>>
Quiet == <<>>
Out(f, shows) ==
    [up |-> f.upCounter, down |-> f.downCounter, shows |-> shows, threw |-> FALSE]

\* Lw.y <= this.targetY + 0.02, lines 153-154 (targetY is an exact fraction)
upEnough(f, w) == w.y * f.targetY.den <= f.targetY.num + 2 * f.targetY.den

\* wrist.y >= this.neutralY + this.downBuffer, lines 159-161
isDown(f, w) == w.y >= f.neutralY + f.downBuffer

\* lines 157-175, the phase "waitDown"; n is the new _downCounter (line 163)
waitDown(f, lm, n) ==
    [up |-> f.upCounter, down |-> n, threw |-> FALSE, shows |->
        IF ~isDown(f, lm[15]) /\ ~isDown(f, lm[16])
        THEN Say("Lower both arms to reset", "correction")
        ELSE IF ~isDown(f, lm[15])
        THEN Say("Lower your left arm to reset", "correction")
        ELSE IF ~isDown(f, lm[16])
        THEN Say("Lower your right arm to reset", "correction")
        ELSE IF n >= f.requireDownFrames
        THEN Say("Great reset! Ready for the next rep", "success")
        ELSE Quiet]

\* lines 177-198, the phase "up"
upPhase(f, lm) ==
    IF ~upEnough(f, lm[15]) /\ ~upEnough(f, lm[16])
    THEN [up |-> 0, down |-> f.downCounter, threw |-> FALSE,
          shows |-> Say("Raise both arms higher", "correction")]
    ELSE IF ~upEnough(f, lm[15])
    THEN [up |-> 0, down |-> f.downCounter, threw |-> FALSE,
          shows |-> Say("Raise your left arm higher", "correction")]
    ELSE IF ~upEnough(f, lm[16])
    THEN [up |-> 0, down |-> f.downCounter, threw |-> FALSE,
          shows |-> Say("Raise your right arm higher", "correction")]
    ELSE [up |-> f.upCounter + 1, down |-> f.downCounter, threw |-> FALSE,
          shows |-> IF f.upCounter + 1 >= f.requireUpFrames
                    THEN Say("Nice height! Hold...", "success")
                    ELSE Quiet]

\* provideShoulderAbductionFeedback, lines 116-199
provideShoulderAbductionFeedback(f, lm) ==
    IF ~isVisible(lm[11]) \/ ~isVisible(lm[12])
    THEN Out(f, Say("Keep both shoulders visible", "warning"))
    ELSE IF Abs(lm[11].y - lm[12].y) > 5
    THEN Out(f, Say("Keep your shoulders level", "correction"))
    ELSE IF isVisible(lm[13]) /\ isVisible(lm[15]) /\ bent(lm[11], lm[13], lm[15])
    THEN Out(f, Say("Straighten your left elbow", "correction"))
    ELSE IF isVisible(lm[14]) /\ isVisible(lm[16]) /\ bent(lm[12], lm[14], lm[16])
    THEN Out(f, Say("Straighten your right elbow", "correction"))
    ELSE IF ~isVisible(lm[15]) \/ ~isVisible(lm[16])
    THEN Out(f, Say("Keep your hands visible", "warning"))
    ELSE IF f.phase = "waitDown"
    THEN waitDown(f, lm, IF isDown(f, lm[15]) /\ isDown(f, lm[16])
                         THEN f.downCounter + 1 ELSE 0)
    ELSE upPhase(f, lm)

\* wrist.y < nose.y - 0.1, lines 219-220 and 251
aboveHead(lm, w) == lm[w].y < lm[0].y - 10

\* provideOverheadPressFeedback, lines 202-256
provideOverheadPressFeedback(f, lm) ==
    IF ~isVisible(lm[11]) \/ ~isVisible(lm[12])
    THEN Out(f, Say("Keep both shoulders visible", "warning"))
    ELSE IF /\ isVisible(lm[0]) /\ isVisible(lm[15]) /\ isVisible(lm[16])
            /\ ~aboveHead(lm, 15) /\ ~aboveHead(lm, 16)
    THEN Out(f, Say("Press both hands higher - above your head", "correction"))
    ELSE IF /\ isVisible(lm[0]) /\ isVisible(lm[15]) /\ isVisible(lm[16])
            /\ ~aboveHead(lm, 15)
    THEN Out(f, Say("Press your left hand higher", "correction"))
    ELSE IF /\ isVisible(lm[0]) /\ isVisible(lm[15]) /\ isVisible(lm[16])
            /\ ~aboveHead(lm, 16)
    THEN Out(f, Say("Press your right hand higher", "correction"))
    ELSE IF isVisible(lm[13]) /\ isVisible(lm[15]) /\ bent(lm[11], lm[13], lm[15])
    THEN Out(f, Say("Extend your left arm fully", "correction"))
    ELSE IF isVisible(lm[14]) /\ isVisible(lm[16]) /\ bent(lm[12], lm[14], lm[16])
    THEN Out(f, Say("Extend your right arm fully", "correction"))
    ELSE IF /\ isVisible(lm[0]) /\ isVisible(lm[15]) /\ isVisible(lm[16])
            /\ aboveHead(lm, 15) /\ aboveHead(lm, 16)
    THEN Out(f, Say("Great! Both hands are up!", "success"))
    ELSE Out(f, Quiet)

\* provideForwardReachFeedback, lines 259-289
provideForwardReachFeedback(f, lm) ==
    IF ~isVisible(lm[11]) \/ ~isVisible(lm[12])
    THEN Out(f, Say("Keep both shoulders visible", "warning"))
    ELSE IF /\ isVisible(lm[15]) /\ isVisible(lm[16])
            /\ ~(lm[15].x < lm[11].x - 10)
            /\ ~(lm[16].x > lm[12].x + 10)
    THEN Out(f, Say("Reach forward with your arms", "correction"))
    ELSE IF Abs(lm[11].y - lm[12].y) > 5
    THEN Out(f, Say("Keep shoulders level while reaching", "correction"))
    ELSE Out(f, Say("Good reach! Hold the position", "success"))

\* provideMiniSquatsFeedback, lines 292-337
provideMiniSquatsFeedback(f, lm) ==
    IF \E i \in 23..28 : ~isVisible(lm[i])
    THEN Out(f, Say("Show your full body - hips, knees, and ankles", "warning"))
    ELSE IF angleIsZero(lm[23], lm[25], lm[27]) \/ angleIsZero(lm[24], lm[26], lm[28])
    THEN Out(f, Quiet)
    ELSE IF /\ angleAbove(lm[23], lm[25], lm[27], 170)
            /\ angleAbove(lm[24], lm[26], lm[28], 170)
    THEN Out(f, Say("Bend your knees more - mini squat down", "correction"))
    ELSE IF \/ angleBelow(lm[23], lm[25], lm[27], 140)
            \/ angleBelow(lm[24], lm[26], lm[28], 140)
    THEN Out(f, Say("Don't squat too deep - keep it mini", "correction"))
    ELSE IF Abs(lm[25].x - lm[27].x) + Abs(lm[26].x - lm[28].x) > 10
    THEN Out(f, Say("Keep knees aligned over your ankles", "correction"))
    ELSE IF Abs(lm[23].y - lm[25].y) < 10 \/ Abs(lm[24].y - lm[26].y) < 10
    THEN Out(f, Say("Perfect squat depth!", "success"))
    ELSE Out(f, Quiet)

\* knee.y < hip.y - 0.05, lines 356-357
kneeLifted(lm, hip, knee) == lm[knee].y < lm[hip].y - 5

\* lines 377-389: the praise of one lifted knee
kneePraise(lm, hip, knee, ankle, message) ==
    IF /\ isVisible(lm[ankle])
       /\ ~angleIsZero(lm[hip], lm[knee], lm[ankle])
       /\ angleBelow(lm[hip], lm[knee], lm[ankle], 90)
       /\ kneeLifted(lm, hip, knee)
    THEN Say(message, "success")
    ELSE Quiet

\* lines 391-404: the midpoints' x differ by more than 0.05 (doubled here)
leaning(lm) == Abs((lm[11].x + lm[12].x) - (lm[23].x + lm[24].x)) > 10

\* lines 391-394: landmarks[11].x and landmarks[12].x are read unguarded; an
\* absent entry makes the read a TypeError, after the praise calls are made
midpointThrows(f, shows) == [Out(f, shows) EXCEPT !.threw = TRUE]

\* provideMarchingFeedback, lines 340-405
provideMarchingFeedback(f, lm) ==
    IF \E i \in 23..26 : ~isVisible(lm[i])
    THEN Out(f, Say("Show your full body for marching", "warning"))
    ELSE IF ~kneeLifted(lm, 23, 25) /\ ~kneeLifted(lm, 24, 26)
    THEN Out(f, Say("Lift your knees higher - march in place", "correction"))
    ELSE IF kneeLifted(lm, 23, 25) /\ lm[23].y - lm[25].y < 8
    THEN Out(f, Say("Lift your left knee higher", "correction"))
    ELSE IF kneeLifted(lm, 24, 26) /\ lm[24].y - lm[26].y < 8
    THEN Out(f, Say("Lift your right knee higher", "correction"))
    ELSE IF ~lm[11].present \/ ~lm[12].present
    THEN midpointThrows(f, kneePraise(lm, 23, 25, 27, "Good left knee lift!")
                           \o kneePraise(lm, 24, 26, 28, "Good right knee lift!"))
    ELSE Out(f, kneePraise(lm, 23, 25, 27, "Good left knee lift!")
                \o kneePraise(lm, 24, 26, 28, "Good right knee lift!")
                \o (IF leaning(lm)
                    THEN Say("Stand up straight - align your body", "correction")
                    ELSE Quiet))

\* provideFeedback, lines 408-433, on the landmarks lm
classify(f, exerciseCriteria, lm) ==
    CASE exerciseCriteria = "shoulderAbduction" ->
            provideShoulderAbductionFeedback(f, lm)
      [] exerciseCriteria = "overheadPress" ->
            provideOverheadPressFeedback(f, lm)
      [] exerciseCriteria = "forwardReach" ->
            provideForwardReachFeedback(f, lm)
      [] exerciseCriteria = "miniSquats" ->
            provideMiniSquatsFeedback(f, lm)
      [] exerciseCriteria = "marchingInPlace" ->
            provideMarchingFeedback(f, lm)
      [] OTHER ->
            IF ~isVisible(lm[11]) \/ ~isVisible(lm[12])
            THEN Out(f, Say("Keep your body visible", "warning"))
            ELSE Out(f, Quiet)

\* setPhase, lines 59-67
setPhase(f, phase) ==
    IF phase = "up" \/ phase = "waitDown"
    THEN [f EXCEPT !.phase = phase, !.downCounter = 0, !.upCounter = 0]
    ELSE f

\* clearFeedback, lines 436-444
clearFeedback(f) ==
    [f EXCEPT !.feedbackElement =
                  IF @.present
                  THEN [present |-> TRUE, textContent |-> "", className |-> ""]
                  ELSE @,
              !.currentFeedback = "", !.downCounter = 0, !.upCounter = 0]

\* the showFeedback calls of one frame, from the k-th on; Date.now() reads
\* now, and one tick more from the tick-th call on when the clock ticks over
\* during the frame (tick = 0: it does not)
RECURSIVE ShowAll(_, _, _, _, _)
ShowAll(S, shows, k, tick, now) ==
    IF k > Len(shows) THEN S
    ELSE ShowAll(showFeedback(S, shows[k].message, shows[k].type,
                              IF tick # 0 /\ k >= tick THEN now + 1 ELSE now),
                 shows, k + 1, tick, now)

\* provideFeedback, lines 408-433: what the classifier O decided, carried out
Classified(S, O, tick, now) ==
    ShowAll([S EXCEPT !.fb.upCounter = O.up, !.fb.downCounter = O.down],
            O.shows, 1, tick, now)

\* ------------------------------------------------- LiveFeedback: the poses

\* standing, the arms held out level with the shoulders
Stand ==
    [present |-> TRUE,
     lm |-> (0 :> Pt(50, 20, 90)
             @@ 11 :> Pt(40, 40, 90) @@ 12 :> Pt(60, 40, 90)
             @@ 13 :> Pt(25, 40, 90) @@ 14 :> Pt(75, 40, 90)
             @@ 15 :> Pt(10, 40, 90) @@ 16 :> Pt(90, 40, 90)
             @@ 23 :> Pt(45, 60, 90) @@ 24 :> Pt(55, 60, 90)
             @@ 25 :> Pt(45, 75, 90) @@ 26 :> Pt(55, 75, 90)
             @@ 27 :> Pt(45, 90, 90) @@ 28 :> Pt(55, 90, 90))]
\* the left arm below the target
PLeftLow ==
    [Stand EXCEPT !.lm[13] = Pt(35, 55, 90), !.lm[15] = Pt(30, 70, 90)]
\* both arms below the target
PLow ==
    [PLeftLow EXCEPT !.lm[14] = Pt(65, 55, 90), !.lm[16] = Pt(70, 70, 90)]
\* both arms below the target and the right shoulder dropped
PTiltLow == [PLow EXCEPT !.lm[12] = Pt(60, 48, 90)]
\* the arms out and the right shoulder dropped
PTiltUp == [Stand EXCEPT !.lm[12] = Pt(60, 48, 90)]
\* both arms hanging down
PDown ==
    [Stand EXCEPT !.lm[13] = Pt(40, 60, 90), !.lm[15] = Pt(40, 80, 90),
                  !.lm[14] = Pt(60, 60, 90), !.lm[16] = Pt(60, 80, 90)]
\* the shoulders not visible
PHidden ==
    [Stand EXCEPT !.lm[11] = Pt(40, 40, 30), !.lm[12] = Pt(60, 40, 30)]
\* the left knee lifted and the trunk leaning
PMarch ==
    [Stand EXCEPT !.lm[25] = Pt(45, 50, 90), !.lm[27] = Pt(50, 62, 90),
                  !.lm[11] = Pt(48, 40, 90), !.lm[12] = Pt(68, 40, 90)]
\* the left knee lifted and no left shoulder detected
PMarchNo11 == [PMarch EXCEPT !.lm[11] = Undef]
\* no landmarks
NoPose == [present |-> FALSE]

\* the frames and selectors handed to the classifiers
Poses == {Stand, PLeftLow, PLow, PTiltLow, PTiltUp, PHidden}
\* the frames of a shoulder abduction session that lowers the arms
ResetPoses == {Stand, PDown, PLow, PTiltLow}
Criteria == {"shoulderAbduction", "overheadPress", "forwardReach",
             "miniSquats", "marchingInPlace", "other"}
\* the frames and selectors of the session that watches the display
ShownPoses == {PMarch, PMarchNo11, NoPose}
ShownCriteria == {"marchingInPlace", ""}

\* ----------------------------------------------- LiveFeedback: the session

FeedbackTicks == 16
MaxCount == 5
MaxDown == 8
FeedbackClock == T0 + FeedbackTicks

\* new LiveFeedback() and init(id), lines 32-37 and 448: the element is found
\* or it is not
FeedbackInit ==
    /\ grid = Loaded.grid
    /\ r = Loaded.r
    /\ savedOnce = Loaded.savedOnce
    /\ store = Loaded.store
    /\ payload = Loaded.payload
    /\ latestLm = NullLm
    /\ clock = T0
    /\ running = FALSE
    /\ page = NotStarted
    /\ got = NoRecord
    /\ \E found \in BOOLEAN :
          fb = [FbInit EXCEPT !.feedbackElement.present = found]
    /\ handed = NoCall
    /\ calls = <<>>
    /\ timers = {}

\* provideFeedback has returned: only the length of the run is remembered
Returned(h) == [NoCall EXCEPT !.upRun = h.upRun, !.downRun = h.downRun]

\* the length of the run of frames handed to the shoulder abduction
\* classifier, up to this one, with both wrists at or above the target
UpRun(f, exerciseCriteria, pose, run) ==
    IF pose.present /\ exerciseCriteria = "shoulderAbduction" /\ f.phase = "up"
    THEN IF upEnough(f, pose.lm[15]) /\ upEnough(f, pose.lm[16])
         THEN Min(run + 1, f.requireUpFrames) ELSE 0
    ELSE run

\* the same for the phase "waitDown": the run of frames with both wrists at
\* or below the down limit
DownRun(f, exerciseCriteria, pose, run) ==
    IF pose.present /\ exerciseCriteria = "shoulderAbduction" /\ f.phase = "waitDown"
    THEN IF isDown(f, pose.lm[15]) /\ isDown(f, pose.lm[16])
         THEN Min(run + 1, f.requireDownFrames) ELSE 0
    ELSE run

\* provideFeedback(exerciseCriteria, landmarks), lines 408-433
ProvideFeedback(exerciseCriteria, pose, tick) ==
    /\ clock + (IF tick = 0 THEN 0 ELSE 1) <= FeedbackClock
    /\ \E O \in {IF pose.present /\ exerciseCriteria # ""
                 THEN classify(fb, exerciseCriteria, pose.lm)
                 ELSE Out(fb, Quiet)} :
          /\ tick <= Len(O.shows)
          /\ O.up <= MaxCount /\ O.down <= MaxDown
          /\ \E S \in {Classified([fb |-> fb, timers |-> timers, calls |-> <<>>],
                                  O, tick, clock)} :
                /\ fb' = S.fb
                /\ timers' = S.timers
                /\ calls' = S.calls
          /\ handed' = [present |-> TRUE, criteria |-> exerciseCriteria,
                        pose |-> pose,
                        upRun |-> UpRun(fb, exerciseCriteria, pose, handed.upRun),
                        downRun |-> DownRun(fb, exerciseCriteria, pose,
                                            handed.downRun),
                        threw |-> O.threw]
    /\ clock' = clock + (IF tick = 0 THEN 0 ELSE 1)
    /\ UNCHANGED <<page, grid, latestLm, r, running, savedOnce, store, payload, got>>

\* showFeedback(message, type) called by the page itself
ShowFeedback(message, type) ==
    /\ \E S \in {showFeedback([fb |-> fb, timers |-> timers, calls |-> <<>>],
                              message, type, clock)} :
          /\ fb' = S.fb
          /\ timers' = S.timers
          /\ calls' = S.calls
    /\ handed' = Returned(handed)
    /\ UNCHANGED <<page, grid, latestLm, clock, r, running, savedOnce, store, payload, got>>

\* a pending auto-clear callback runs, at its time or later
TimerFire ==
    \E t \in timers :
        /\ t.due <= clock
        /\ fb' = timerFired(fb, t)
        /\ timers' = timers \ {t}
        /\ handed' = Returned(handed)
        /\ calls' = <<>>
        /\ UNCHANGED <<page, grid, latestLm, clock, r, running, savedOnce, store, payload, got>>

\* 100 ms pass; the callbacks that are due have run
FeedbackTick ==
    /\ clock < FeedbackClock
    /\ \A t \in timers : t.due > clock
    /\ clock' = clock + 1
    /\ handed' = Returned(handed)
    /\ calls' = <<>>
    /\ UNCHANGED <<page, grid, latestLm, r, running, savedOnce, store, payload, got, fb, timers>>

\* setPhase(phase) called by the exercise page
SetPhase(phase) ==
    /\ fb' = setPhase(fb, phase)
    /\ handed' = [Returned(handed) EXCEPT !.upRun = IF fb' = fb THEN @ ELSE 0,
                                          !.downRun = IF fb' = fb THEN @ ELSE 0]
    /\ calls' = <<>>
    /\ UNCHANGED <<page, grid, latestLm, clock, r, running, savedOnce, store, payload, got, timers>>

\* clearFeedback() called by the exercise page
ClearFeedback ==
    /\ fb' = clearFeedback(fb)
    /\ handed' = NoCall
    /\ calls' = <<>>
    /\ UNCHANGED <<page, grid, latestLm, clock, r, running, savedOnce, store, payload, got, timers>>

FeedbackNext ==
    \/ \E c \in ShownCriteria : \E p \in ShownPoses : \E tick \in {0, 2} :
          ProvideFeedback(c, p, tick)
    \/ \E m \in {"", "Keep your body visible"} : ShowFeedback(m, "warning")
    \/ TimerFire
    \/ FeedbackTick
    \/ ClearFeedback

SpecFeedback == FeedbackInit /\ [][FeedbackNext]_vars

\* the session of an exercise page: frames, phases and clears, so close in
\* time that the clock reads the same
ExerciseNext ==
    \/ \E c \in Criteria : \E p \in Poses : ProvideFeedback(c, p, 0)
    \/ \E phase \in {"up", "waitDown", "rest"} : SetPhase(phase)
    \/ ClearFeedback

SpecExercise == FeedbackInit /\ [][ExerciseNext]_vars

\* the session of the shoulder abduction page, which raises and lowers the
\* arms and switches the phase
ResetNext ==
    \/ \E p \in ResetPoses : ProvideFeedback("shoulderAbduction", p, 0)
    \/ \E phase \in {"up", "waitDown", "rest"} : SetPhase(phase)
    \/ ClearFeedback

SpecReset == FeedbackInit /\ [][ResetNext]_vars

\* ------------------------------------------------------------ the claims
\* a step of the frame loop, and one in which it called update on latestLm
Ticked == clock' # clock
Updated == Ticked /\ latestLm.present
Lm == latestLm.lm

\* the frame in latestLm passes the three early exits of update
PassesPre ==
    /\ Lm[15].present /\ Lm[16].present
    /\ (grid.needsHips => hipsOK(grid, Lm))
    /\ vOK(grid, Lm[15]) /\ vOK(grid, Lm[16])

\* a status' fields, undefined read as none / 0
StatusLeftActive(st) == IF "leftActive" \in DOMAIN st THEN st.leftActive ELSE NoRung
StatusRightActive(st) == IF "rightActive" \in DOMAIN st THEN st.rightActive ELSE NoRung
ProgressOf(st) == IF "progress" \in DOMAIN st THEN st.progress ELSE 0
SavedOf(st) == IF "saved" \in DOMAIN st THEN st.saved ELSE FALSE

\* the point (x, y) is farther than hitRadius from every rung of the lane
FarFromEveryRung(g, pt, laneX) ==
    \A i \in 1..g.count :
        (pt.x - laneX) * (pt.x - laneX) + (pt.y - g.yList[i]) * (pt.y - g.yList[i])
            > g.hitRadius * g.hitRadius

HoldNeeded == grid.holdSeconds * TicksPerSec

\* the active rung, after the frame, of the hand update works on
ActNow == IF grid.step = "left" THEN grid'.leftActive ELSE grid'.rightActive

\* the speed test of the frame in latestLm
SteadyNow ==
    IF grid.step = "left"
    THEN Steady(grid, grid.sL, nrm(Lm[15]), DtOf(grid, clock'))
    ELSE Steady(grid, grid.sR, nrm(Lm[16]), DtOf(grid, clock'))

\* C1: step only ever changes left -> right or right -> done: never back,
\* never out of done, never from left straight to done.
C1_StepOrder ==
    [][ \/ grid'.step = grid.step
        \/ grid.step = "left" /\ grid'.step = "right"
        \/ grid.step = "right" /\ grid'.step = "done" ]_vars

\* both transitions happened after the checkpoint: a frame moved right -> done
C1_Witness ==
    /\ clock > T0
    /\ SavedOf(r) /\ r.side = "right" /\ grid.step = "done"

\* C2: a saved rung is written on a frame if and only if the hold accumulated
\* on that frame is >= holdSeconds; the value written is the candidate (the
\* active rung) of the hand named by step; that frame reports saved = true and
\* progress 1.
C2_SaveIffHeld ==
    [][ Updated =>
          /\ SavedOf(r') =>
                /\ grid.hold + DtOf(grid, clock') >= HoldNeeded
                /\ r'.progress = Scale
                /\ grid.step = "left" =>
                      /\ grid'.leftSaved = grid'.leftActive
                      /\ grid'.leftSaved # NoRung
                      /\ grid'.rightSaved = grid.rightSaved
                /\ grid.step = "right" =>
                      /\ grid'.rightSaved = grid'.rightActive
                      /\ grid'.rightSaved # NoRung
                      /\ grid'.leftSaved = grid.leftSaved
          /\ ~SavedOf(r') =>
                /\ grid'.hold < HoldNeeded
                /\ grid'.leftSaved = grid.leftSaved
                /\ grid'.rightSaved = grid.rightSaved ]_vars

C2_Witness ==
    /\ clock > T0
    /\ SavedOf(r) /\ r.side = "left" /\ r.progress = Scale
    /\ grid.leftSaved = 5 /\ grid.step = "right"

\* C3, as stated: on every frame in which a hand's landmark is farther than
\* hitRadius from every rung of its lane, the status reports that hand's
\* active rung as none and the reported progress does not increase.
C3_Original ==
    [][ Updated =>
          /\ (Lm[15].present /\ FarFromEveryRung(grid, nrm(Lm[15]), grid.leftX)) =>
                /\ StatusLeftActive(r') = NoRung
                /\ ProgressOf(r') <= ProgressOf(r)
          /\ (Lm[16].present /\ FarFromEveryRung(grid, nrm(Lm[16]), grid.rightX)) =>
                /\ StatusRightActive(r') = NoRung
                /\ ProgressOf(r') <= ProgressOf(r) ]_vars

\* C3, amended: on every frame that passes the early exits, a hand whose
\* smoothed position (the one update hit-tests) is farther than hitRadius from
\* every rung of its lane is reported with no active rung, and when it is the
\* hand named by step the frame saves nothing and reports progress 0.
C3_SmoothedFar ==
    [][ (Updated /\ PassesPre) =>
          /\ FarFromEveryRung(grid, grid'.sL, grid.leftX) =>
                /\ StatusLeftActive(r') = NoRung
                /\ grid.step = "left" => (~SavedOf(r') /\ ProgressOf(r') = 0)
          /\ FarFromEveryRung(grid, grid'.sR, grid.rightX) =>
                /\ StatusRightActive(r') = NoRung
                /\ grid.step = "right" => (~SavedOf(r') /\ ProgressOf(r') = 0) ]_vars

C3_Witness ==
    /\ clock > T0 /\ grid.lastTs = clock
    /\ grid.step = "left"
    /\ FarFromEveryRung(grid, grid.sL, grid.leftX)
    /\ StatusLeftActive(r) = NoRung /\ ProgressOf(r) = 0
    /\ grid.leftSaved = NoRung

\* C4: while the hand named by step stays on the candidate rung at a speed
\* <= maxSpeedPerSec, the reported progress does not decrease from one frame
\* to the next; on a frame whose active rung differs from the candidate, the
\* steady-frame counter and the hold accumulator restart from 0 before
\* anything is added.
C4_HoldMonotone ==
    [][ (Updated /\ PassesPre /\ ActNow # NoRung) =>
          /\ (grid.step \in {"left", "right"} /\ ActNow = grid.candidate /\ SteadyNow) =>
                ProgressOf(r') >= ProgressOf(r)
          /\ (ActNow # grid.candidate /\ grid.kFrames > 1) =>
                /\ grid'.candidate = ActNow
                /\ grid'.kOn = (IF SteadyNow THEN 1 ELSE 0)
                /\ grid'.hold = 0
                /\ ProgressOf(r') = 0 ]_vars

\* the hold grew on the same rung after the checkpoint
C4_Witness ==
    /\ clock > T0 /\ grid.lastTs = clock
    /\ grid.step = "left" /\ grid.candidate = 5
    /\ grid.hold = 4 * TicksPerSec /\ ProgressOf(r) = 80

\* C6, as stated: a frame that arrives mid-hold with a hip's visibility below
\* minVis resets the hold accumulator, the steady-frame counter and the
\* candidate and reports progress 0; and hold time is added only once kFrames
\* steady frames have been counted.
C6_Original ==
    [][ Updated =>
          /\ (grid.needsHips /\ grid.kOn > 0 /\ ~hipsOK(grid, Lm)) =>
                /\ grid'.hold = 0 /\ grid'.kOn = 0 /\ grid'.candidate = NoRung
                /\ ProgressOf(r') = 0
          /\ (grid'.hold > grid.hold) => grid'.kOn >= grid.kFrames ]_vars

\* C7: a frame that fails a precondition (a hand landmark absent, the hips
\* not visible, a wrist's visibility below minVis) leaves step, leftSaved and
\* rightSaved unchanged and returns saved = false and progress 0.
C7_EarlyExitFrame ==
    [][ (Updated /\ ~PassesPre) =>
          /\ grid'.step = grid.step
          /\ grid'.leftSaved = grid.leftSaved
          /\ grid'.rightSaved = grid.rightSaved
          /\ "saved" \in DOMAIN r' /\ r'.saved = FALSE
          /\ r'.progress = 0 ]_vars

\* the hips were lost in the right step: the left rung is still saved
C7_Witness ==
    /\ clock > T0 /\ grid.lastTs < clock
    /\ grid.step = "right" /\ grid.leftSaved = 5
    /\ grid.candidate = NoRung /\ grid.kOn = 0 /\ grid.hold = 0
    /\ ~SavedOf(r) /\ ProgressOf(r) = 0 /\ r.step = "right"

\* C5: from step = left, when every frame delivered shows the left hand on
\* the same rung, steady and visible, and the frame loop keeps running, the
\* left rung is eventually saved as that rung and step becomes right.
C5_HoldSaves ==
    \A k \in HoldRungs :
        (grid.step = "left" /\ HeldRung(latestLm) = k)
            ~> (grid.leftSaved = k /\ grid.step = "right")

C5_Witness ==
    /\ HeldRung(latestLm) = 4
    /\ grid.leftSaved = 4 /\ grid.step = "right"
    /\ SavedOf(r) /\ r.side = "left"
    /\ clock = T0 + FrameTicks * 10

\* the rom values setLevel reads from the record in use, and the span
NeutralOf(f) == safeNum(RomField(f.calib, "neutralY"), 78)
MaxReachOf(f) ==
    Min(safeNum(RomField(f.calib, "maxReachLeftY"), 18),
        safeNum(RomField(f.calib, "maxReachRightY"), 18))
SpanOf(f) == MaxReachOf(f) - NeutralOf(f)

\* a / b <= c / d for fractions with positive denominators
FracLeq(p, q) == p.num * q.den <= q.num * p.den

\* targetY = neutralY + (pct / 100) * span
TargetAt(f, pct) ==
    f.targetY.num * Scale = (NeutralOf(f) * Scale + pct * SpanOf(f)) * f.targetY.den

\* the instance's values are those of a setLevel call, not the constructor's
\* (whose targetY 0.6 no call computes for level 1 of 3 without a record)
LevelSet == fb # FbInit

\* two calls with the same record in use and the same level count, the
\* second at the same or a higher level
LevelRaised ==
    /\ LevelSet
    /\ fb'.calib = fb.calib
    /\ fb'.levels = fb.levels
    /\ fb.level <= fb'.level

\* C8, as stated: for a fixed record and level count, targetY is
\* non-decreasing in the level.
C8_Original == [][ LevelRaised => FracLeq(fb.targetY, fb'.targetY) ]_vars

\* C8, amended: for a fixed record and level count, targetY moves
\* monotonically from neutralY toward the maximum reach as the level rises:
\* it is non-increasing when the maximum reach is <= neutralY (the hands
\* reach up, y grows downward) and non-decreasing when it is >= neutralY.
C8_TowardReach ==
    [][ LevelRaised =>
          /\ SpanOf(fb) <= 0 => FracLeq(fb'.targetY, fb.targetY)
          /\ SpanOf(fb) >= 0 => FracLeq(fb.targetY, fb'.targetY) ]_vars

\* a target strictly between two others of the same record: levels 1 < 2 < 3
C8_Witness ==
    /\ fb.level = 2 /\ fb.levels = 3 /\ fb.calib.present
    /\ SpanOf(fb) = 18 - 78
    /\ fb.targetY.num * Scale = 54 * Scale * fb.targetY.den

\* the part of C9 that holds of every call: targetY = neutralY + frac * span
\* for a frac in [0.15, 0.65], maxReachY the smaller of the two reaches;
\* frac is 0.15 at level 1 and 0.65 at the last of more than one level; the
\* level count is never below the level
C9_Ramp ==
    /\ fb.neutralY = NeutralOf(fb)
    /\ 1 <= fb.level /\ fb.level <= fb.levels
    /\ \E f \in (15 * fb.targetY.den)..(65 * fb.targetY.den) :
          fb.targetY.num * Scale * fb.targetY.den
              = (NeutralOf(fb) * Scale * fb.targetY.den + f * SpanOf(fb)) * fb.targetY.den
    /\ fb.level = 1 => TargetAt(fb, 15)
    /\ (fb.level = fb.levels /\ fb.levels > 1) => TargetAt(fb, 65)

\* C9, as stated: the above, and targetY never reaches the maximum reach.
C9_Original ==
    LevelSet =>
        /\ C9_Ramp
        /\ fb.targetY.num # MaxReachOf(fb) * fb.targetY.den

\* C9, amended: the above, and targetY differs from the maximum reach
\* whenever the maximum reach differs from neutralY (with no span between
\* them targetY, neutralY and the maximum reach are one value).
C9_RampShortOfReach ==
    LevelSet =>
        /\ C9_Ramp
        /\ SpanOf(fb) # 0 => fb.targetY.num # MaxReachOf(fb) * fb.targetY.den
        /\ SpanOf(fb) = 0 => fb.targetY.num = MaxReachOf(fb) * fb.targetY.den

\* a level above every level count the page can pass: the count follows it
C9_Witness ==
    /\ fb.level = MaxLevel + 1 /\ fb.levels = MaxLevel + 1
    /\ SpanOf(fb) = 18 - 78
    /\ TargetAt(fb, 65)

\* the record rec has the indices and rom fields of the record p
SameCalibration(rec, p) ==
    /\ rec.present /\ p.present
    /\ rec.leftIndex = p.leftIndex
    /\ rec.rightIndex = p.rightIndex
    /\ rec.rom.neutralY = p.rom.neutralY
    /\ rec.rom.maxReachLeftY = p.rom.maxReachLeftY
    /\ rec.rom.maxReachRightY = p.rom.maxReachRightY

\* the frame loop saved on this step and the save changed a slot
SaveWrote == savedOnce' /\ ~savedOnce /\ store' # store

\* C10: once saveCalibration has written, CalibrationBridge.get returns a
\* record with the leftIndex, rightIndex and rom fields of the record just
\* built, whatever the three slots held before: this holds right after the
\* save and of every later get.
C10_RoundTrip ==
    [][ /\ SaveWrote => SameCalibration(BridgeGet(store'), payload')
        /\ (got' # got /\ savedOnce /\ store.session = Item(stringify(payload)))
              => SameCalibration(got', payload) ]_vars

\* get after a save whose second write failed over an older long-lived copy
C10_Witness ==
    /\ savedOnce /\ payload.present
    /\ store.local = Item(stringify(OldPayload))
    /\ store.session = Item(stringify(payload))
    /\ got.present /\ got.leftIndex = 5 /\ got.rightIndex = 5
    /\ got.rom = payload.rom

\* the save of this step: saveCalibration is called once, on the first frame
\* with step = done
SaveCalled == savedOnce' /\ ~savedOnce

\* C11, as stated: after a call to saveCalibration the three stored copies
\* all hold the serialized record just built, or none of them has changed,
\* also when a storage write fails.
C11_Original ==
    [][ SaveCalled =>
          \/ store' = store
          \/ /\ store'.session = Item(stringify(payload'))
             /\ store'.local = Item(stringify(payload'))
             /\ store'.compat = Item(stringify(payload')) ]_vars

\* a record was built on this step (its timestamp t tells two builds apart)
RecordBuilt == payload' # payload

Provided == handed'.present
\* the call was made for this selector with landmarks
ProvidedFor(exerciseCriteria) ==
    Provided /\ handed'.criteria = exerciseCriteria /\ handed'.pose.present
\* the frame just handed over
Handed(i) == handed'.pose.lm[i]
\* the call issued this message
Issued(message) == \E k \in DOMAIN calls' : calls'[k].message = message
\* the one message the call issued was this one
IssuedOnly(message) == Len(calls') = 1 /\ calls'[1].message = message

\* C13: in shoulder abduction with phase "up", "Nice height! Hold..." is
\* issued on a frame only if that frame and the requireUpFrames - 1 frames
\* handed to the classifier immediately before it all had both wrists at or
\* above the target; and a frame with either wrist below the target resets
\* the up counter to 0 and issues the matching "raise" correction.
C13_Original ==
    [][ (ProvidedFor("shoulderAbduction") /\ fb.phase = "up") =>
          /\ Issued("Nice height! Hold...") =>
                handed'.upRun >= fb.requireUpFrames
          /\ (~upEnough(fb, Handed(15)) \/ ~upEnough(fb, Handed(16))) =>
                /\ fb'.upCounter = 0
                /\ IssuedOnly(IF upEnough(fb, Handed(16))
                              THEN "Raise your left arm higher"
                              ELSE IF upEnough(fb, Handed(15))
                              THEN "Raise your right arm higher"
                              ELSE "Raise both arms higher") ]_vars

\* the calls before the k-th call of the step that rendered
RenderedBefore(k) == {j \in 1..(k - 1) : calls'[j].rendered}
\* the time of the last rendering before the k-th call of the step
PriorRender(k) ==
    IF RenderedBefore(k) = {} THEN fb.lastFeedbackTime
    ELSE calls'[CHOOSE j \in RenderedBefore(k) :
                    \A i \in RenderedBefore(k) : i <= j].at
\* the display state of the instance f: the text shown, currentFeedback and
\* lastFeedbackTime
Display(f) == <<f.feedbackElement, f.currentFeedback, f.lastFeedbackTime>>

\* C14: showFeedback renders a message only if it is non-empty and at least
\* 500 ms have passed since the previous rendered message, so any two
\* rendered messages are at least 500 ms apart; a suppressed call changes
\* neither the displayed text, nor currentFeedback, nor lastFeedbackTime.
C14_AntiSpam ==
    [][ /\ \A k \in DOMAIN calls' :
              calls'[k].rendered =>
                 /\ calls'[k].message # ""
                 /\ calls'[k].at - PriorRender(k) >= SpamTicks
        /\ calls' # <<>> =>
              IF RenderedBefore(Len(calls') + 1) = {}
              THEN Display(fb') = Display(fb)
              ELSE /\ fb'.lastFeedbackTime = PriorRender(Len(calls') + 1)
                   /\ fb'.lastFeedbackTime >= fb.lastFeedbackTime + SpamTicks
                   /\ \E k \in DOMAIN calls' :
                         /\ calls'[k].rendered
                         /\ calls'[k].at = fb'.lastFeedbackTime
                         /\ fb'.currentFeedback = calls'[k].message
                         /\ fb'.feedbackElement.textContent = calls'[k].message
        /\ \A t1 \in timers' : \A t2 \in timers' :
              t1 # t2 => Abs(t1.setAt - t2.setAt) >= SpamTicks ]_vars

\* a frame of two calls, the first rendered half a second or more after the
\* message before it and the second suppressed
C14_Witness ==
    /\ Len(calls) = 2
    /\ calls[1].rendered /\ ~calls[2].rendered
    /\ calls[1].at >= T0 + SpamTicks
    /\ fb.lastFeedbackTime = calls[1].at
    /\ fb.feedbackElement.textContent = calls[1].message
    /\ Cardinality(timers) >= 2

\* C15: a rendered message stays displayed until 1500 ms after its own set
\* event unless a later message supersedes it: the auto-clear timer of one
\* set event never clears text that a later set event rendered, also when
\* the later event rendered the same text.
C15_Original ==
    [][ \A t \in timers \ timers' :
            fb'.feedbackElement # fb.feedbackElement =>
                /\ t.setAt = fb.lastFeedbackTime
                /\ clock >= fb.lastFeedbackTime + fb.feedbackCooldown ]_vars

\* the frame shows a gross postural fault: the shoulders, both visible,
\* differ in height by more than 0.05
ShoulderFault ==
    /\ isVisible(Handed(11)) /\ isVisible(Handed(12))
    /\ Abs(Handed(11).y - Handed(12).y) > 5
\* the frame with the right shoulder moved to the height of the left one
Levelled(lm) == [lm EXCEPT ![12].y = lm[11].y]
\* the first call the classifier makes on the landmarks lm
FirstSaid(f, exerciseCriteria, lm) ==
    IF classify(f, exerciseCriteria, lm).shows = <<>>
    THEN [message |-> "", type |-> ""]
    ELSE classify(f, exerciseCriteria, lm).shows[1]
\* the frame shows a positional fault of the exercise: with level shoulders
\* the classifier answers it with a correction
PositionalFault(exerciseCriteria) ==
    FirstSaid(fb, exerciseCriteria, Levelled(handed'.pose.lm)).type = "correction"
\* the corrections of the shoulders' level
PosturalMessages ==
    {"Keep your shoulders level", "Keep shoulders level while reaching"}

\* C16: for every exercise type, on a frame that shows both a gross postural
\* fault (shoulder y-difference above 0.05) and a positional fault of the
\* exercise, the message chosen is the postural one.
C16_Original ==
    [][ \A c \in Criteria \ {"other"} :
            (ProvidedFor(c) /\ ShoulderFault /\ PositionalFault(c)) =>
                /\ calls' # <<>>
                /\ calls'[1].message \in PosturalMessages ]_vars

\* the calls of the step that rendered
RenderedCalls == {k \in DOMAIN calls' : calls'[k].rendered}

NoNumbers(c) ==
    \/ ~c.present
    \/ "rom" \notin DOMAIN c
    \/ \A field \in DOMAIN c.rom : c.rom[field] \in {NaN, Null}

\* C18: setLevel with no calibration record (a null record, or rom fields
\* missing or non-numeric) computes neutralY and targetY from the defaults
\* 0.78 and 0.18, and targetY lies between them.
C18_Original ==
    [][ (fb' # fb /\ NoNumbers(fb'.calib)) =>
          /\ fb'.neutralY = 78
          /\ fb'.targetY = lerp(78, 18, Frac([num |-> fb'.level - 1,
                                              den |-> Max(1, fb'.levels - 1)]))
          /\ 18 * fb'.targetY.den <= fb'.targetY.num
          /\ fb'.targetY.num <= 78 * fb'.targetY.den ]_vars

\* ---- claims about the hold, continued

\* C19: on an update frame in which landmark 15 or landmark 16 is absent, the
\* steady-frame counter and the hold accumulator are reset to zero.
C19_Original ==
    [][ (Updated /\ (~Lm[15].present \/ ~Lm[16].present)) =>
          /\ grid'.kOn = 0
          /\ grid'.hold = 0 ]_vars

\* C20: the hold accumulator increases on a frame only if that frame ends a
\* run of at least kFrames consecutive steady frames on the same candidate
\* rung; a frame whose speed exceeds maxSpeedPerSec accrues no hold time and
\* breaks the run.
C20_Original ==
    [][ (Updated /\ PassesPre) =>
          /\ grid'.hold > grid.hold =>
                /\ SteadyNow
                /\ grid'.kOn >= grid.kFrames
          /\ ~SteadyNow =>
                /\ grid'.hold <= grid.hold
                /\ grid'.kOn = 0 ]_vars

\* ---- claims about the hands' visibility and the neutral height

\* the landmark of the hand that step names, and of the other hand
ActiveHand == IF grid.step = "left" THEN Lm[15] ELSE Lm[16]
OtherHand == IF grid.step = "left" THEN Lm[16] ELSE Lm[15]

\* C21: a frame in which the hand that is not being calibrated has a
\* visibility below minVis, while the hips and the active hand meet minVis,
\* does not reset the steady-frame counter or the hold accumulator.
C21_Original ==
    [][ ( /\ Updated /\ grid.step \in {"left", "right"}
          /\ Lm[15].present /\ Lm[16].present
          /\ hipsOK(grid, Lm)
          /\ vOK(grid, ActiveHand) /\ ~vOK(grid, OtherHand) ) =>
            /\ grid'.kOn >= grid.kOn
            /\ grid'.hold >= grid.hold ]_vars

\* the hip height of the frame in latestLm: the larger of the two hips' y
HipHeight == Max(clamp01(Lm[23].y), clamp01(Lm[24].y))
\* how many copies of v the frame added to the neutral-height pool
Pooled(v) == CopiesIn(v, grid'.neutralSamples) - CopiesIn(v, grid.neutralSamples)

\* C22: every value that enters the neutral-height pool is the maximum of
\* the two hip y-values of the frame being processed, one value per frame at
\* most, so the neutralY of the record is a mean of hip heights only; hand
\* positions never enter the pool.
C22_Original ==
    [][ /\ Updated =>
              \A v \in BagToSet(grid'.neutralSamples) :
                  Pooled(v) <= (IF v = HipHeight THEN 1 ELSE 0)
        /\ SaveCalled => payload'.rom.neutralY = Neutral(grid') ]_vars

\* ---- claims about the phase "waitDown"

\* the messages of the phase "up"
UpMessages ==
    {"Raise both arms higher", "Raise your left arm higher",
     "Raise your right arm higher", "Nice height! Hold..."}

\* C23: in shoulder abduction with phase "waitDown" no "raise" correction and
\* no "Nice height" is issued; "Great reset! Ready for the next rep" is
\* issued only after requireDownFrames consecutive frames with both wrists at
\* y >= neutralY + downBuffer; and a frame with either wrist above that limit
\* resets the down counter to 0 and issues the matching "lower" correction.
C23_Original ==
    [][ (ProvidedFor("shoulderAbduction") /\ fb.phase = "waitDown") =>
          /\ \A m \in UpMessages : ~Issued(m)
          /\ Issued("Great reset! Ready for the next rep") =>
                handed'.downRun >= fb.requireDownFrames
          /\ (~isDown(fb, Handed(15)) \/ ~isDown(fb, Handed(16))) =>
                /\ fb'.downCounter = 0
                /\ IssuedOnly(IF isDown(fb, Handed(16))
                              THEN "Lower your left arm to reset"
                              ELSE IF isDown(fb, Handed(15))
                              THEN "Lower your right arm to reset"
                              ELSE "Lower both arms to reset") ]_vars

\* ---- claims about absent landmarks

\* C24: for every exercise selector and every frame in which some landmark
\* entries are absent, provideFeedback completes without raising an error.
C24_Original == [][ Provided => ~handed'.threw ]_vars

\* ---------------------------------------------------------------------------
\* The session after completion: mainLoop goes on calling update until the
\* page is left

DoneTicks == 12
DoneClock == T0 + FrameTicks * DoneTicks
DoneFrames == {F55, F44}

\* start, lines 198-240, and the frames up to the last one before completion
DoneInit ==
    \E S \in {RunFrames(Loaded, Rep(F55, 19), T0 - FrameTicks * 18)} :
        /\ grid = S.grid
        /\ r = S.r
        /\ savedOnce = S.savedOnce
        /\ store = S.store
        /\ payload = S.payload
        /\ latestLm = F55
        /\ clock = T0
        /\ running = TRUE
        /\ page = Started
        /\ got = NoRecord
        /\ fb = FbInit
        /\ handed = NoCall
        /\ calls = <<>>
        /\ timers = {}

\* pose.onResults, line 225
DoneResults(f) ==
    /\ running
    /\ latestLm' = f
    /\ UNCHANGED <<page, grid, clock, r, running, savedOnce, store, payload, got, fb,
                   handed, calls, timers>>

\* mainLoop, lines 251-319
DoneLoop ==
    /\ running
    /\ clock + FrameTicks <= DoneClock
    /\ clock' = clock + FrameTicks
    /\ \E S \in {mainLoopBody([grid |-> grid, r |-> r, savedOnce |-> savedOnce,
                              store |-> store, payload |-> payload],
                             latestLm, clock + FrameTicks, 0)} :
           /\ grid' = S.grid
           /\ r' = S.r
           /\ savedOnce' = S.savedOnce
           /\ store' = S.store
           /\ payload' = S.payload
    /\ UNCHANGED <<page, latestLm, running, got, fb,
                   handed, calls, timers>>

\* The redirect timer of mainLoop, lines 305-312: location.assign(next) is
\* called 1000 ms after the save; the document, and with it the frame loop,
\* lives on until the navigation commits, which takes an unbounded time (and
\* never happens when next names a fragment of the page itself).  Leaving the
\* page ends every callback of the session.
Redirect ==
    /\ running
    /\ savedOnce
    /\ payload.present
    /\ clock >= payload.t + TicksPerSec
    /\ running' = FALSE
    /\ UNCHANGED <<page, grid, latestLm, clock, r, savedOnce, store, payload, got, fb,
                   handed, calls, timers>>

DoneNext ==
    \/ \E f \in DoneFrames : DoneResults(f)
    \/ DoneLoop
    \/ Redirect

SpecDone == DoneInit /\ [][DoneNext]_vars

\* C25: once step is done, an update call changes neither leftSaved nor
\* rightSaved
C25_Original ==
    [][ (Updated /\ grid.step = "done")
            => (grid'.leftSaved = grid.leftSaved /\ grid'.rightSaved = grid.rightSaved) ]_vars

\* C26: the hold time an update call credits is at most the time elapsed since
\* the preceding frame tick, whether or not that tick called update or ran it
\* to the end
C26_Original ==
    [][ Updated => grid'.hold - grid.hold <= clock' - clock ]_vars

\* ---------------------------------------------------------------------------
\* Starting the session: the start button, start and the first frames

StartTicks == 6
StartClock == T0 + FrameTicks * StartTicks
StartFrames == {F55, F44, NullLm}

\* the page as loaded, lines 112-113: running false and no frame requested
\* (grid is null until line 233 creates it, and no frame reads it before)
StartInit ==
    /\ grid = Loaded.grid
    /\ r = Loaded.r
    /\ savedOnce = Loaded.savedOnce
    /\ store = Loaded.store
    /\ payload = Loaded.payload
    /\ latestLm = NullLm
    /\ clock = T0
    /\ running = FALSE
    /\ page = NotStarted
    /\ got = NoRecord
    /\ fb = FbInit
    /\ handed = NoCall
    /\ calls = <<>>
    /\ timers = {}

\* btnStart.onclick, line 321, and start up to its first await, lines 199-209:
\* a call made while running is true returns at once
Click ==
    /\ ~page.disabled
    /\ IF running
       THEN /\ page' = [page EXCEPT !.ignored = TRUE]
            /\ UNCHANGED running
       ELSE /\ running' = TRUE
            /\ page' = [page EXCEPT !.at = "camera", !.outcome = "none", !.disabled = TRUE]
    /\ UNCHANGED <<grid, latestLm, clock, r, savedOnce, store, payload, got, fb,
                   handed, calls, timers>>

\* start, lines 209-210: the three getUserMedia attempts; with no stream the
\* call gives up
GetUserMedia(ok) ==
    /\ page.at = "camera"
    /\ IF ok
       THEN /\ page' = [page EXCEPT !.at = "setup"]
            /\ UNCHANGED running
       ELSE /\ running' = FALSE
            /\ page' = [page EXCEPT !.at = "idle", !.outcome = "camera", !.disabled = FALSE]
    /\ UNCHANGED <<grid, latestLm, clock, r, savedOnce, store, payload, got, fb,
                   handed, calls, timers>>

\* start, lines 211-239, after the stream: "noCtor" is the exit of line 222,
\* "threw" an exception of one of the statements (new PoseCtor, setOptions,
\* cam.start, buildLadderUI), which rejects the promise of start and is handled
\* by the catch of line 321, "started" the end of start at line 239
Setup(outcome) ==
    /\ page.at = "setup"
    /\ running' = (outcome # "noCtor" /\ running)
    /\ grid' = IF outcome = "started" THEN Create(defaults) ELSE grid
    /\ page' = [page EXCEPT !.at = "idle", !.outcome = outcome,
                            !.disabled = (outcome = "started"),
                            !.loops = @ + (IF outcome = "started" THEN 1 ELSE 0)]
    /\ UNCHANGED <<latestLm, clock, r, savedOnce, store, payload, got, fb,
                   handed, calls, timers>>

\* pose.onResults, line 225
StartResults(f) ==
    /\ page.outcome = "started"
    /\ latestLm' = f
    /\ UNCHANGED <<page, grid, clock, r, running, savedOnce, store, payload, got, fb,
                   handed, calls, timers>>

\* a requested mainLoop callback, lines 251-319: it returns without requesting
\* the next frame when running is false (line 252), and requests it otherwise
\* (line 318)
StartLoop ==
    /\ page.loops > 0
    /\ clock + FrameTicks <= StartClock
    /\ clock' = clock + FrameTicks
    /\ page' = [page EXCEPT !.loops = IF running THEN @ ELSE @ - 1]
    /\ \E S \in {IF running
                 THEN mainLoopBody([grid |-> grid, r |-> r, savedOnce |-> savedOnce,
                                    store |-> store, payload |-> payload],
                                   latestLm, clock + FrameTicks, 0)
                 ELSE [grid |-> grid, r |-> r, savedOnce |-> savedOnce,
                       store |-> store, payload |-> payload]} :
           /\ grid' = S.grid
           /\ r' = S.r
           /\ savedOnce' = S.savedOnce
           /\ store' = S.store
           /\ payload' = S.payload
    /\ UNCHANGED <<latestLm, running, got, fb,
                   handed, calls, timers>>

StartNext ==
    \/ Click
    \/ \E ok \in BOOLEAN : GetUserMedia(ok)
    \/ \E outcome \in {"noCtor", "threw", "started"} : Setup(outcome)
    \/ \E f \in StartFrames : StartResults(f)
    \/ StartLoop

SpecStart == StartInit /\ [][StartNext]_vars

\* C27: after a failed start attempt (camera error, pose constructor not
\* found, or an exception handled by the start button's catch) running is
\* false and no later start call is ignored; and at most one frame loop is
\* requested at any time
C27_Original ==
    /\ (page.at = "idle" /\ page.outcome \in {"camera", "noCtor", "threw"})
           => (~running /\ ~page.ignored)
    /\ page.loops <= 1

=============================================================================
